---- MODULE Spec2Model ----
(***************************************************************************)
(* minify-literals: the placeholder-substitution protocol of               *)
(* lib/strategy.ts (defaultStrategy) and the orchestrator                  *)
(* minifyHTMLLiterals.                                                     *)
(*                                                                         *)
(* A JavaScript string is a sequence of one-character strings; indices in  *)
(* the operators below are the 0-based indices of the source.              *)
(***************************************************************************)
EXTENDS Integers, Sequences, FiniteSets, TLC

(***************************************************************************)
(* String primitives of the JavaScript runtime used by the source.         *)
(***************************************************************************)

MinOf(S) == CHOOSE x \in S : \A y \in S : x <= y

MaxOf(S) == CHOOSE x \in S : \A y \in S : x >= y

\* s.startsWith(t, i)
StartsAt(s, t, i) ==
    /\ i >= 0
    /\ i + Len(t) <= Len(s)
    /\ \A k \in 1..Len(t) : s[i + k] = t[k]

\* s.indexOf(t, pos): the first index >= pos at which t occurs, or -1
IndexOf(s, t, pos) ==
    LET from == IF pos < 0 THEN 0 ELSE IF pos > Len(s) THEN Len(s) ELSE pos
        hits == {i \in from..(Len(s) - Len(t)) : StartsAt(s, t, i)}
    IN  IF hits = {} THEN -1 ELSE MinOf(hits)

\* s.includes(t)
Includes(s, t) == IndexOf(s, t, 0) # -1

\* s.endsWith(t)
EndsWith(s, t) == Len(t) <= Len(s) /\ StartsAt(s, t, Len(s) - Len(t))

\* s.slice(from) / s.substring(from)
SliceFrom(s, from) == SubSeq(s, from + 1, Len(s))

\* s.slice(from, to) / s.substring(from, to)
Slice(s, from, to) == SubSeq(s, from + 1, to)

\* s.split(sep): an empty separator splits into single characters
RECURSIVE Split(_, _)
Split(s, sep) ==
    IF sep = <<>>
    THEN [i \in 1..Len(s) |-> <<s[i]>>]
    ELSE LET idx == IndexOf(s, sep, 0)
         IN  IF idx = -1
             THEN <<s>>
             ELSE <<Slice(s, 0, idx)>> \o Split(SliceFrom(s, idx + Len(sep)), sep)

\* strs.join(sep)
RECURSIVE Join(_, _)
Join(strs, sep) ==
    IF Len(strs) = 0 THEN <<>>
    ELSE IF Len(strs) = 1 THEN strs[1]
    ELSE strs[1] \o sep \o Join(Tail(strs), sep)

\* strs.join("")
RECURSIVE Concat(_)
Concat(strs) == IF Len(strs) = 0 THEN <<>> ELSE strs[1] \o Concat(Tail(strs))

\* s.replaceAll(pat, rep) for a literal, non-empty pattern
ReplaceAll(s, pat, rep) == Join(Split(s, pat), rep)

\* the characters of s that are not in the set drop
RECURSIVE RemoveChars(_, _)
RemoveChars(s, drop) ==
    IF Len(s) = 0 THEN <<>>
    ELSE (IF s[1] \in drop THEN <<>> ELSE <<s[1]>>) \o RemoveChars(Tail(s), drop)

Digits == <<"0", "1", "2", "3", "4", "5", "6", "7", "8", "9">>

Lower == <<"a", "b", "c", "d", "e", "f", "g", "h", "i", "j", "k", "l", "m",
           "n", "o", "p", "q", "r", "s", "t", "u", "v", "w", "x", "y", "z">>

Upper == <<"A", "B", "C", "D", "E", "F", "G", "H", "I", "J", "K", "L", "M",
           "N", "O", "P", "Q", "R", "S", "T", "U", "V", "W", "X", "Y", "Z">>

Range(f) == {f[i] : i \in DOMAIN f}

\* the regular-expression class \s (the members that occur in the inputs)
Whitespace == {" ", "\n", "\r", "\t", "\f"}

\* the regular-expression class \w
WordChars == Range(Digits) \cup Range(Lower) \cup Range(Upper) \cup {"_"}

\* the characters the regular-expression atom . does not match
LineTerminators == {"\n", "\r"}

\* s.toLowerCase()
ToLowerCase(s) ==
    [i \in 1..Len(s) |->
        IF s[i] \in Range(Upper)
        THEN Lower[CHOOSE k \in 1..26 : Upper[k] = s[i]]
        ELSE s[i]]

\* `${n}` for a non-negative integer n
RECURSIVE ToDecimal(_)
ToDecimal(n) ==
    IF n < 10 THEN <<Digits[n + 1]>>
    ELSE ToDecimal(n \div 10) \o <<Digits[(n % 10) + 1]>>

\* s with its leading white space removed
RECURSIVE TrimStart(_)
TrimStart(s) ==
    IF Len(s) > 0 /\ s[1] \in Whitespace THEN TrimStart(Tail(s)) ELSE s

\* s with its trailing white space removed
RECURSIVE TrimEnd(_)
TrimEnd(s) ==
    IF Len(s) > 0 /\ s[Len(s)] \in Whitespace
    THEN TrimEnd(SubSeq(s, 1, Len(s) - 1))
    ELSE s

\* s.trim()
Trim(s) == TrimEnd(TrimStart(s))

(***************************************************************************)
(* Literals of lib/strategy.ts.                                            *)
(***************************************************************************)

TemplateExpression ==
    <<"@", "T", "E", "M", "P", "L", "A", "T", "E", "_",
      "E", "X", "P", "R", "E", "S", "S", "I", "O", "N">>

Suffix == <<"(", ")", ";">>

TagOpenToken == <<"<">> \o TemplateExpression \o Suffix

TagCloseToken == <<"<", "/">> \o TemplateExpression \o Suffix

TagOpenSafe ==
    <<"<", "T", "E", "M", "P", "L", "A", "T", "E", "_",
      "E", "X", "P", "R", "E", "S", "S", "I", "O", "N", "_", "_", "_">>

TagCloseSafe ==
    <<"<", "/", "T", "E", "M", "P", "L", "A", "T", "E", "_",
      "E", "X", "P", "R", "E", "S", "S", "I", "O", "N", "_", "_", "_">>

KeyToken == TemplateExpression \o Suffix \o <<":">>

KeySafe ==
    <<"-", "-", "T", "E", "M", "P", "L", "A", "T", "E", "-",
      "E", "X", "P", "R", "E", "S", "S", "I", "O", "N", ":">>

CommentOpen == <<"<", "!", "-", "-">>

CommentClose == <<"-", "-", ">">>

CssCommentOpen == <<"/", "*">>

CssCommentClose == <<"*", "/">>

SvgOpen == <<"<", "s", "v", "g">>

SvgClose == <<"<", "/", "s", "v", "g">>

(***************************************************************************)
(* A placeholder is `string | string[]`: kind tells which, str holds the   *)
(* string and arr the array.                                               *)
(***************************************************************************)

StringPlaceholder(s) == [kind |-> "string", str |-> s, arr |-> <<>>]

ArrayPlaceholder(a) == [kind |-> "array", str |-> <<>>, arr |-> a]

\* the tokens a placeholder consists of
Tokens(ph) == IF ph.kind = "string" THEN {ph.str} ELSE Range(ph.arr)

\* a function's outcome: a returned value, or a thrown Error
Returned(v) == [threw |-> FALSE, value |-> v]

Thrown == [threw |-> TRUE, value |-> <<>>]

Texts(parts) == [i \in 1..Len(parts) |-> parts[i].text]

(***************************************************************************)
(* defaultStrategy.getPlaceholder                                          *)
(***************************************************************************)

\* text.replace(/\/\*[\s\S]*?\*\//g, "")
RECURSIVE StripCssComments(_)
StripCssComments(s) ==
    LET open == IndexOf(s, CssCommentOpen, 0)
        close == IF open = -1 THEN -1 ELSE IndexOf(s, CssCommentClose, open + 2)
    IN  IF close = -1
        THEN s
        ELSE Slice(s, 0, open) \o StripCssComments(SliceFrom(s, close + 2))

\* /^\s*\{/.test(afterCss)
IsSelector(afterCss) ==
    LET t == TrimStart(afterCss) IN Len(t) > 0 /\ t[1] = "{"

\* /^\s*:/.test(afterCss)
IsKey(afterCss) ==
    LET t == TrimStart(afterCss) IN Len(t) > 0 /\ t[1] = ":"

\* /\}\s*$/.test(beforeCss) || beforeCss.trim().length === 0
IsRule(beforeCss) ==
    LET t == TrimEnd(beforeCss)
    IN  (Len(t) > 0 /\ t[Len(t)] = "}") \/ Len(Trim(beforeCss)) = 0

\* /^\w+/.test(afterCss)
IsUnit(afterCss) == Len(afterCss) > 0 /\ afterCss[1] \in WordChars

\* /:\s*$/.test(beforeCss)
IsValue(beforeCss) ==
    LET t == TrimEnd(beforeCss) IN Len(t) > 0 /\ t[Len(t)] = ":"

\* the branch the loop body takes at the boundary before parts[i] (0-based i)
Classify(parts, i) ==
    LET beforeCss == StripCssComments(parts[i].text)
        afterCss == StripCssComments(parts[i + 1].text)
    IN  IF IsSelector(afterCss) THEN "selector"
        ELSE IF IsKey(afterCss) THEN "key"
        ELSE IF IsRule(beforeCss) THEN "rule"
        ELSE IF IsUnit(afterCss) THEN "unit"
        ELSE IF IsValue(beforeCss) THEN "value"
        ELSE "params"

\* CssLoop with a selector position that returns like a rule position
RECURSIVE CssLoopSelectorReturns(_, _, _, _, _)
CssLoopSelectorReturns(parts, i, placeholder, random, nums) ==
    IF i >= Len(parts)
    THEN ArrayPlaceholder(placeholder)
    ELSE LET class == Classify(parts, i)
         IN  IF class = "selector"
             THEN StringPlaceholder(<<"#">> \o random)
             ELSE IF class = "key"
             THEN CssLoopSelectorReturns(parts, i + 1,
                                         Append(placeholder, <<"-", "-">> \o random),
                                         random, nums)
             ELSE IF class = "rule"
             THEN StringPlaceholder(<<"@">> \o random \o Suffix)
             ELSE IF class = "unit"
             THEN CssLoopSelectorReturns(parts, i + 1,
                                         Append(placeholder, ToDecimal(nums[i])),
                                         random, nums)
             ELSE CssLoopSelectorReturns(parts, i + 1,
                                         Append(placeholder,
                                                <<"v", "a", "r", "(", "-", "-">>
                                                    \o random \o <<")">>),
                                         random, nums)

\* the loop `for (let i = 1; i < parts.length; i++)`; nums[i] is the value of
\* randomInt with which the inner `while (true)` is left at boundary i
RECURSIVE CssLoop(_, _, _, _, _)
CssLoop(parts, i, placeholder, random, nums) ==
    IF i >= Len(parts)
    THEN ArrayPlaceholder(placeholder)
    ELSE LET class == Classify(parts, i)
         IN  IF class = "selector"
             THEN CssLoop(parts, i + 1, Append(placeholder, <<"#">> \o random),
                          random, nums)
             ELSE IF class = "key"
             THEN CssLoop(parts, i + 1, Append(placeholder, <<"-", "-">> \o random),
                          random, nums)
             ELSE IF class = "rule"
             THEN StringPlaceholder(<<"@">> \o random \o Suffix)
             ELSE IF class = "unit"
             THEN CssLoop(parts, i + 1, Append(placeholder, ToDecimal(nums[i])),
                          random, nums)
             ELSE CssLoop(parts, i + 1,
                          Append(placeholder,
                                 <<"v", "a", "r", "(", "-", "-">> \o random \o <<")">>),
                          random, nums)

\* the boundaries the loop reaches: it returns at the first rule position
Reached(parts, i) == \A j \in 1..(i - 1) : Classify(parts, j) # "rule"

\* the draws of randomInt that leave the `while (true)` of every numeric-unit
\* boundary: the decimal numeral is not in the text before the boundary
DrawsAccepted(parts, nums) ==
    \A i \in 1..(Len(parts) - 1) :
        (Reached(parts, i) /\ Classify(parts, i) = "unit")
            => ~Includes(parts[i].text, ToDecimal(nums[i]))

\* the markup loop `while (parts.some(...)) placeholder += "_"`
RECURSIVE MarkupLoop(_, _)
MarkupLoop(parts, placeholder) ==
    IF \E i \in 1..Len(parts) : Includes(parts[i].text, placeholder \o Suffix)
    THEN MarkupLoop(parts, placeholder \o <<"_">>)
    ELSE placeholder

\* tag?.toLowerCase().includes("css"); a missing tag is the empty sequence
IsCss(tag) == Includes(ToLowerCase(tag), <<"c", "s", "s">>)

\* bytes is randomBytes(6).toString("hex")
getPlaceholder(parts, tag, bytes, nums) ==
    IF IsCss(tag)
    THEN CssLoop(parts, 1, <<>>, <<"t", "m", "p", "_">> \o bytes, nums)
    ELSE StringPlaceholder(MarkupLoop(parts, TemplateExpression) \o Suffix)

(***************************************************************************)
(* defaultStrategy.combineHTMLStrings                                      *)
(***************************************************************************)

combineHTMLStrings(parts, placeholder) ==
    IF placeholder.kind = "string"
    THEN Join(Texts(parts), placeholder.str)
    ELSE Concat([i \in 1..Len(parts) |->
                    parts[i].text \o (IF i <= Len(placeholder.arr)
                                      THEN placeholder.arr[i]
                                      ELSE <<>>)])

(***************************************************************************)
(* defaultStrategy.splitHTMLByPlaceholder                                  *)
(***************************************************************************)

\* for (let i = parts.length - 1; i >= 0; i--) parts.splice(i, 1, ...split)
RECURSIVE SpliceLoop(_, _, _)
SpliceLoop(parts, i, withoutSemicolon) ==
    IF i < 0
    THEN parts
    ELSE SpliceLoop(SubSeq(parts, 1, i)
                        \o Split(parts[i + 1], withoutSemicolon)
                        \o SubSeq(parts, i + 2, Len(parts)),
                    i - 1, withoutSemicolon)

\* SplitSingle without the second split on the shortened token
SplitSingleUnspliced(html, placeholder) == Split(html, placeholder)

SplitSingle(html, placeholder) ==
    LET parts == Split(html, placeholder)
    IN  IF EndsWith(placeholder, <<";">>)
        THEN SpliceLoop(parts, Len(parts) - 1,
                        Slice(placeholder, 0, Len(placeholder) - 1))
        ELSE parts

\* SplitStrict with every token looked for from the start of html
RECURSIVE SplitStrictFromStart(_, _, _, _, _)
SplitStrictFromStart(html, placeholder, n, pos, parts) ==
    IF n >= Len(placeholder)
    THEN Returned(Append(parts, SliceFrom(html, pos)))
    ELSE LET ph == placeholder[n + 1]
             index == IndexOf(html, ph, 0)
         IN  IF index = -1
             THEN Thrown
             ELSE SplitStrictFromStart(html, placeholder, n + 1, index + Len(ph),
                                       Append(parts, Slice(html, pos, index)))

\* for (const ph of placeholder), n the number of tokens consumed so far
RECURSIVE SplitStrict(_, _, _, _, _)
SplitStrict(html, placeholder, n, pos, parts) ==
    IF n >= Len(placeholder)
    THEN Returned(Append(parts, SliceFrom(html, pos)))
    ELSE LET ph == placeholder[n + 1]
             index == IndexOf(html, ph, pos)
         IN  IF index = -1
             THEN Thrown
             ELSE SplitStrict(html, placeholder, n + 1, index + Len(ph),
                              Append(parts, Slice(html, pos, index)))

splitHTMLByPlaceholder(html, placeholder) ==
    IF placeholder.kind = "string"
    THEN Returned(SplitSingle(html, placeholder.str))
    ELSE SplitStrict(html, placeholder.arr, 0, 0, <<>>)

(***************************************************************************)
(* fixCleanCssTidySelectors                                                *)
(***************************************************************************)

NoLineTerminator(s, from, to) ==
    \A x \in from..(to - 1) : s[x + 1] \notin LineTerminators

\* index of the "{" that ends a match whose ")" is at k: [\s\r\n]*{
BraceAfter(s, k) ==
    LET rest == {b \in (k + 1)..(Len(s) - 1) : s[b + 1] \notin Whitespace}
    IN  IF rest # {} /\ s[MinOf(rest) + 1] = "{" THEN MinOf(rest) ELSE -1

\* .+\((.*)\) from index p: "(" at j and ")" at k, as the backtracking of the
\* greedy quantifiers finds them (the last "(", then the last ")")
ParenPairs(s, p) ==
    {jk \in ((p + 1)..(Len(s) - 1)) \X ((p + 2)..(Len(s) - 1)) :
        /\ jk[1] < jk[2]
        /\ s[jk[1] + 1] = "("
        /\ s[jk[2] + 1] = ")"
        /\ NoLineTerminator(s, p, jk[2])
        /\ BraceAfter(s, jk[2]) # -1}

\* the match of /(::?.+\((.*)\))[\s\r\n]*{/ that starts at index i, if any
MatchAt(s, i) ==
    LET two == i + 1 < Len(s) /\ s[i + 2] = ":" /\ ParenPairs(s, i + 2) # {}
        p == IF two THEN i + 2 ELSE i + 1
        pairs == ParenPairs(s, p)
        j == MaxOf({jk[1] : jk \in pairs})
        k == MaxOf({jk[2] : jk \in {x \in pairs : x[1] = j}})
    IN  IF i >= Len(s) \/ s[i + 1] # ":" \/ pairs = {}
        THEN [found |-> FALSE, start |-> i, open |-> 0, close |-> 0, last |-> 0]
        ELSE [found |-> TRUE, start |-> i, open |-> j, close |-> k,
              last |-> BraceAfter(s, k) + 1]

\* regex.exec(original) with lastIndex
Exec(original, lastIndex) ==
    LET starts == {i \in lastIndex..(Len(original) - 1) : MatchAt(original, i).found}
    IN  IF starts = {}
        THEN [found |-> FALSE, start |-> 0, open |-> 0, close |-> 0, last |-> 0]
        ELSE MatchAt(original, MinOf(starts))

\* the body of the while loop for one match
TidyOne(original, result, match) ==
    LET pseudoClass == Slice(original, match.start, match.close + 1)
        parameters == Slice(original, match.open + 1, match.close)
        parametersWithoutSpaces == RemoveChars(parameters, Whitespace)
        at == IndexOf(pseudoClass, parameters, 0)
        resultPseudoClass ==
            Slice(pseudoClass, 0, at) \o parametersWithoutSpaces
                \o SliceFrom(pseudoClass, at + Len(parameters))
        resultStartIndex == IndexOf(result, resultPseudoClass, 0)
        resultEndIndex == resultStartIndex + Len(resultPseudoClass)
    IN  IF \A x \in 1..Len(parameters) : parameters[x] \notin Whitespace
        THEN result
        ELSE IF resultStartIndex < 0
        THEN result
        ELSE Slice(result, 0, resultStartIndex) \o pseudoClass
                \o SliceFrom(result, resultEndIndex)

RECURSIVE TidyLoop(_, _, _)
TidyLoop(original, result, lastIndex) ==
    LET match == Exec(original, lastIndex)
    IN  IF ~match.found
        THEN result
        ELSE TidyLoop(original, TidyOne(original, result, match), match.last)

fixCleanCssTidySelectors(original, result) == TidyLoop(original, result, 0)

(***************************************************************************)
(* defaultStrategy.minifyHTML                                              *)
(***************************************************************************)

\* html.match(/<!--(.*?)@TEMPLATE_EXPRESSION\(\);(.*?)-->/g) is not null
CommentMatch(html) ==
    LET token == TemplateExpression \o Suffix
    IN  \E i \in 0..Len(html) :
          /\ StartsAt(html, CommentOpen, i)
          /\ \E j \in (i + 4)..Len(html) :
               /\ StartsAt(html, token, j)
               /\ NoLineTerminator(html, i + 4, j)
               /\ \E k \in (j + Len(token))..Len(html) :
                    /\ StartsAt(html, CommentClose, k)
                    /\ NoLineTerminator(html, j + Len(token), k)

\* the two replaceAll calls before the external minifier is called
EscapeTagTokens(html) ==
    ReplaceAll(ReplaceAll(html, TagOpenToken, TagOpenSafe), TagCloseToken, TagCloseSafe)

\* the two replaceAll calls after it
RestoreTagTokens(result) ==
    ReplaceAll(ReplaceAll(result, TagOpenSafe, TagOpenToken), TagCloseSafe, TagCloseToken)

\* svg.replace(/\r?\n/g, "")
RECURSIVE RemoveNewlines(_)
RemoveNewlines(s) ==
    IF Len(s) = 0 THEN <<>>
    ELSE IF s[1] = "\n" THEN RemoveNewlines(Tail(s))
    ELSE IF s[1] = "\r" /\ Len(s) > 1 /\ s[2] = "\n"
    THEN RemoveNewlines(SubSeq(s, 3, Len(s)))
    ELSE <<s[1]>> \o RemoveNewlines(Tail(s))

\* for (const match of matches): the matches of /<svg/g, last one first
RECURSIVE SvgLoop(_, _)
SvgLoop(result, matches) ==
    IF matches = {}
    THEN result
    ELSE LET startTagIndex == MaxOf(matches)
             closeTagIndex == IndexOf(result, SvgClose, startTagIndex)
             rest == matches \ {startTagIndex}
         IN  IF closeTagIndex < 0
             THEN SvgLoop(result, rest)
             ELSE SvgLoop(Slice(result, 0, startTagIndex)
                              \o RemoveNewlines(Slice(result, startTagIndex, closeTagIndex))
                              \o SliceFrom(result, closeTagIndex),
                          rest)

CollapseSvg(result) ==
    SvgLoop(result, {i \in 0..Len(result) : StartsAt(result, SvgOpen, i)})

\* minifyHTML after `await minify(...)` has returned minified, for the html
\* it was called with; collapseWhitespace is options.collapseWhitespace
AfterMinify(html, minified, collapseWhitespace) ==
    LET restored == RestoreTagTokens(minified)
        collapsed == IF collapseWhitespace THEN CollapseSvg(restored) ELSE restored
    IN  fixCleanCssTidySelectors(html, collapsed)

(***************************************************************************)
(* defaultStrategy.minifyCSS                                               *)
(***************************************************************************)

\* css.replaceAll(/@TEMPLATE_EXPRESSION\(\);:/g, "--TEMPLATE-EXPRESSION:")
EscapeKeyTokens(css) == ReplaceAll(css, KeyToken, KeySafe)

\* css.replace(/(\n)|(\r)/g, "") on the css handed to the external minifier
SoftFailure(css) == RemoveChars(EscapeKeyTokens(css), {"\n", "\r"})

\* minifyCSS after `await new CleanCSS(...).minify(css)` has returned output
minifyCSS(css, output) ==
    IF output.errors
    THEN Thrown
    ELSE IF output.warnings
    THEN Returned(SoftFailure(css))
    ELSE Returned(fixCleanCssTidySelectors(EscapeKeyTokens(css),
                                           ReplaceAll(output.styles, KeySafe, KeyToken)))

(***************************************************************************)
(* The external collaborators: html-minifier-terser's minify and           *)
(* clean-css's minify.  Their output is not determined by this repository; *)
(* each is one of the outcomes below.                                      *)
(***************************************************************************)

\* removeComments: every <!-- ... --> removed
RECURSIVE StripMarkupComments(_)
StripMarkupComments(s) ==
    LET open == IndexOf(s, CommentOpen, 0)
        close == IF open = -1 THEN -1 ELSE IndexOf(s, CommentClose, open + 4)
    IN  IF close = -1
        THEN s
        ELSE Slice(s, 0, open) \o StripMarkupComments(SliceFrom(s, close + 3))

\* the semicolon that ends a call-shaped token removed (strategy.ts:174-177)
DropSemicolons(s) == ReplaceAll(s, Suffix, <<"(", ")">>)

\* the semicolon of the first call-shaped token removed only
DropFirstSemicolon(s) ==
    LET idx == IndexOf(s, Suffix, 0)
    IN  IF idx = -1
        THEN s
        ELSE Slice(s, 0, idx) \o <<"(", ")">> \o SliceFrom(s, idx + Len(Suffix))

\* what `await minify(html, options)` may resolve to
MinifyOutcomes(html) ==
    {html, RemoveChars(html, Whitespace), DropSemicolons(html),
     DropFirstSemicolon(html), StripMarkupComments(html)}

\* what `await new CleanCSS(options).minify(css)` may resolve to: errors and
\* warnings stand for output.errors.length > 0 and output.warnings.length > 0;
\* the styles are the css, the css without whitespace, the css without
\* comments, or nothing (every rule dropped)
CleanCssOutcomes(css) ==
    {[errors |-> TRUE, warnings |-> w, styles |-> <<>>] : w \in BOOLEAN}
        \cup {[errors |-> FALSE, warnings |-> w, styles |-> st] :
                w \in BOOLEAN,
                st \in {css, RemoveChars(css, Whitespace), StripCssComments(css), <<>>}}

NoOutput == [errors |-> FALSE, warnings |-> FALSE, styles |-> <<>>]

(***************************************************************************)
(* Inputs of the strategy functions.                                       *)
(***************************************************************************)

\* templates have at most MaxParts parts
MaxParts == 3

\* randomBytes(6).toString("hex"): two of the 16^12 draws
HexDraws ==
    {<<"0", "0", "0", "0", "0", "0", "0", "0", "0", "0", "0", "0">>,
     <<"a", "1", "b", "2", "c", "3", "d", "4", "e", "5", "f", "6">>}

\* randomInt(281474976710655): three of the draws
IntDraws == {7, 11, 12}

HtmlTag == <<"h", "t", "m", "l">>

CssTag == <<"c", "s", "s">>

\* part texts of markup templates
CommentTexts ==
    {<<"<", "!", "-", "-">>, <<"<", "!", "-", "-", "\n">>, <<"-", "-", ">">>,
     TemplateExpression \o Suffix}

MarkupTexts ==
    {<<>>, <<"<", "p", ">", "\n", " ">>, TemplateExpression \o <<"(", ")">>,
     <<":", "x">>}

\* part texts of stylesheet templates
ValueTexts ==
    {<<>>, <<"a", "{", "w", ":">>, <<";", "}">>, <<"p", "x", " ", "7">>}

SelectorTexts ==
    {<<" ", "{", "c", ":", "d", "}">>, <<":", "e", "}">>, <<"/", "*", "}", "*", "/", "1">>,
     <<"f", "(">>}

Families ==
    {[tag |-> HtmlTag, texts |-> CommentTexts],
     [tag |-> HtmlTag, texts |-> MarkupTexts],
     [tag |-> CssTag, texts |-> ValueTexts],
     [tag |-> CssTag, texts |-> SelectorTexts]}

\* the arrays of 1..MaxParts parts with texts from the set texts
PartsOver(texts) ==
    UNION {[1..n -> {[text |-> t] : t \in texts}] : n \in 1..MaxParts}

NoPlaceholder == [kind |-> "none", str |-> <<>>, arr |-> <<>>]

(***************************************************************************)
(* minifyHTMLLiterals: its inputs.                                         *)
(***************************************************************************)

\* a source holds at most MaxTemplates templates
MaxTemplates == 2

UnsafeCSS == <<"u", "n", "s", "a", "f", "e", "C", "S", "S">>

UnsafeHTML == <<"u", "n", "s", "a", "f", "e", "H", "T", "M", "L">>

\* the code in front of the templates: none, or a call of an escape helper
NoHelper == <<>>

CallUnsafeHTML == UnsafeHTML \o <<"(", "y", ")", ";">>

CallUnsafeCSS == UnsafeCSS \o <<"(", "y", ")", ";">>

\* the expression slot between two parts, as it stands in the source
Slot == <<"$", "{", "x", "}">>

\* the templates of the sources: a tag and the texts of the parts
Shapes ==
    <<[tag |-> HtmlTag, texts |-> <<<<"<", "p", ">", "\n", " ">>, <<>>>>],
     [tag |-> HtmlTag, texts |-> <<<<"<", "!", "-", "-", "\n">>, <<"-", "-", ">">>>>],
     [tag |-> CssTag, texts |-> <<<<"a", "{", "w", ":">>, <<";", "\n", "}">>>>],
     [tag |-> <<"s", "q", "l">>, texts |-> <<<<"q", "\n">>>>],
     [tag |-> <<"c", "s", "s", "H", "t", "m", "l">>, texts |-> <<<<"b", " ", "{", "}">>>>]>>

\* the delimiter of a template literal (written as an apostrophe here)
Backtick == <<"'">>

\* the text of a template in the source: the tag and, between backticks, the
\* texts of the parts separated by expression slots
ShapeSource(shape) ==
    shape.tag \o Backtick \o Join(shape.texts, Slot) \o Backtick \o <<";">>

\* the source string: the helper call followed by the templates
SourceOf(helper, shapes) ==
    helper \o Concat([k \in 1..Len(shapes) |-> ShapeSource(shapes[k])])

\* offset of the first character of part i of the template at offset base
RECURSIVE PartStart(_, _, _)
PartStart(shape, base, i) ==
    IF i = 1
    THEN base + Len(shape.tag) + 1
    ELSE PartStart(shape, base, i - 1) + Len(shape.texts[i - 1]) + Len(Slot)

\* offset of the template k of the source
RECURSIVE TemplateBase(_, _, _)
TemplateBase(helper, shapes, k) ==
    IF k = 1
    THEN Len(helper)
    ELSE TemplateBase(helper, shapes, k - 1) + Len(ShapeSource(shapes[k - 1]))

\* options.parseLiterals(source, options.parseLiteralsOptions)
parseLiterals(helper, shapes) ==
    [k \in 1..Len(shapes) |->
        [tag |-> shapes[k].tag,
         parts |-> [i \in 1..Len(shapes[k].texts) |->
                      LET start == PartStart(shapes[k], TemplateBase(helper, shapes, k), i)
                      IN  [text |-> shapes[k].texts[i],
                           start |-> start,
                           end |-> start + Len(shapes[k].texts[i])]]]]

\* the options of an invocation: validate is options.validate !== false;
\* strategy is "default" (defaultStrategy), "emptyString" or "emptyArray"
\* (defaultStrategy with its getPlaceholder replaced by one that returns ""
\* or [""]) or "markup" (a strategy with no minifyCSS);
\* minifyCSS is options.minifyOptions.minifyCSS, an object or false
DefaultOptions == [validate |-> TRUE, strategy |-> "default", minifyCSS |-> "object"]

\* the invocations: the helper call in the source and the options
Invocations ==
    {[helper |-> NoHelper, options |-> DefaultOptions],
     [helper |-> NoHelper, options |-> [DefaultOptions EXCEPT !.validate = FALSE]],
     [helper |-> NoHelper, options |-> [DefaultOptions EXCEPT !.strategy = "emptyString"]],
     [helper |-> NoHelper, options |-> [DefaultOptions EXCEPT !.strategy = "emptyArray"]],
     [helper |-> NoHelper,
      options |-> [DefaultOptions EXCEPT !.strategy = "emptyString", !.validate = FALSE]],
     [helper |-> NoHelper,
      options |-> [DefaultOptions EXCEPT !.strategy = "emptyArray", !.validate = FALSE]],
     [helper |-> NoHelper, options |-> [DefaultOptions EXCEPT !.minifyCSS = "false"]],
     [helper |-> CallUnsafeHTML, options |-> DefaultOptions],
     [helper |-> CallUnsafeCSS, options |-> DefaultOptions],
     [helper |-> CallUnsafeCSS, options |-> [DefaultOptions EXCEPT !.strategy = "markup"]]}

(***************************************************************************)
(* defaultShouldMinify, defaultShouldMinifyCSS, defaultValidation.         *)
(***************************************************************************)

defaultShouldMinify(template) ==
    LET t == ToLowerCase(template.tag)
    IN  Len(t) > 0 /\ (Includes(t, HtmlTag) \/ Includes(t, <<"s", "v", "g">>))

defaultShouldMinifyCSS(template) ==
    Includes(ToLowerCase(template.tag), CssTag)

\* ensurePlaceholderValid without the test of the elements of an array
ArrayUnchecked(ph) == ph.kind = "array" \/ (ph.kind = "string" /\ Len(ph.str) > 0)

\* TRUE when ensurePlaceholderValid returns, FALSE when it throws
ensurePlaceholderValid(ph) ==
    \/ ph.kind = "string" /\ Len(ph.str) > 0
    \/ ph.kind = "array" /\ \A i \in 1..Len(ph.arr) : Len(ph.arr[i]) > 0

\* ensureHTMLPartsValid comparing nothing
AnyCountValid(tparts, htmlParts) == TRUE

\* TRUE when ensureHTMLPartsValid returns, FALSE when it throws
ensureHTMLPartsValid(tparts, htmlParts) == Len(tparts) = Len(htmlParts)

(***************************************************************************)
(* The edit buffer (MagicString): the source and the overwrites applied to *)
(* it, addressed by offsets of the source.                                 *)
(***************************************************************************)

NewMagicString(src) == [original |-> src, edits |-> <<>>]

\* ms.overwrite(start, end, content), issued by template t
overwrite(ms, t, start, end, content) ==
    [ms EXCEPT !.edits =
        Append(@, [by |-> t, start |-> start, end |-> end, content |-> content])]

\* the rendering of the source from offset p on: an overwritten range yields
\* its content (the latest overwrite of the range), the rest is kept
RECURSIVE Render(_, _, _)
Render(original, edits, p) ==
    IF p >= Len(original)
    THEN <<>>
    ELSE LET at == {n \in 1..Len(edits) : edits[n].start = p}
             over == {n \in 1..Len(edits) : edits[n].start < p /\ p < edits[n].end}
         IN  IF at # {}
             THEN edits[MaxOf(at)].content
                      \o Render(original, edits, edits[MaxOf(at)].end)
             ELSE IF over # {}
             THEN Render(original, edits, p + 1)
             ELSE <<original[p + 1]>> \o Render(original, edits, p + 1)

\* ms.toString()
toString(ms) == Render(ms.original, ms.edits, 0)

(***************************************************************************)
(* State.  The first group is that of one invocation of                    *)
(* minifyHTMLLiterals: per template, pc is the position of its callback    *)
(* (templates.map(async (template) => ...)), placeholder, combined and     *)
(* minParts are the callback's variables, calls the strategy and external  *)
(* functions it has called so far.  The second group is that of the        *)
(* strategy functions applied to one template on their own.                *)
(***************************************************************************)

VARIABLES source, templates, options, skipCSS, skipHTML, ms, pc, mainPc,
          result, placeholder, combined, minParts, calls

VARIABLES parts, tag, step, first, second, combinedStr, called, output,
          minified, segments

literalsVars ==
    <<source, templates, options, skipCSS, skipHTML, ms, pc, mainPc,
      result, placeholder, combined, minParts, calls>>

strategyVars ==
    <<parts, tag, step, first, second, combinedStr, called, output,
      minified, segments>>

vars == <<literalsVars, strategyVars>>

\* the strategy functions are not applied on their own
StrategyIdle ==
    /\ parts = <<>>
    /\ tag = <<>>
    /\ step = "idle"
    /\ first = NoPlaceholder
    /\ second = NoPlaceholder
    /\ combinedStr = <<>>
    /\ called = FALSE
    /\ output = NoOutput
    /\ minified = Returned(<<>>)
    /\ segments = Returned(<<>>)

\* there is no invocation of minifyHTMLLiterals
LiteralsIdle ==
    /\ source = <<>>
    /\ templates = <<>>
    /\ options = DefaultOptions
    /\ skipCSS = FALSE
    /\ skipHTML = FALSE
    /\ ms = NewMagicString(<<>>)
    /\ pc = <<>>
    /\ mainPc = "idle"
    /\ result = [kind |-> "pending", code |-> <<>>]
    /\ placeholder = <<>>
    /\ combined = <<>>
    /\ minParts = <<>>
    /\ calls = <<>>

(***************************************************************************)
(* minifyHTMLLiterals                                                      *)
(***************************************************************************)

\* the sources: at most MaxTemplates templates behind a helper, in the order
\* of Shapes (a template may occur more than once)
ShapeSeqs ==
    UNION {{[k \in 1..n |-> Shapes[pick[k]]] :
               pick \in {f \in [1..n -> 1..Len(Shapes)] :
                            \A k \in 1..(n - 1) : f[k] <= f[k + 1]}} :
           n \in 1..MaxTemplates}

\* strategy.minifyCSS is defined
HasMinifyCSS(o) == o.strategy # "markup"

\* the state at the call of templates.map: the options are filled in, the
\* source is parsed, the escape helpers are looked for, ms is constructed
Init ==
    /\ \E inv \in Invocations, shapes \in ShapeSeqs :
         /\ source = SourceOf(inv.helper, shapes)
         /\ templates = parseLiterals(inv.helper, shapes)
         /\ options = inv.options
         /\ pc = [t \in 1..Len(shapes) |-> "init"]
         /\ placeholder = [t \in 1..Len(shapes) |-> NoPlaceholder]
         /\ combined = [t \in 1..Len(shapes) |-> <<>>]
         /\ minParts = [t \in 1..Len(shapes) |-> Returned(<<>>)]
         /\ calls = [t \in 1..Len(shapes) |-> <<>>]
    /\ skipCSS = (HasMinifyCSS(options) /\ Includes(source, UnsafeCSS))
    /\ skipHTML = Includes(source, UnsafeHTML)
    /\ ms = NewMagicString(source)
    /\ mainPc = "map"
    /\ result = [kind |-> "pending", code |-> <<>>]
    /\ StrategyIdle

\* const minifyHTML = !skipHTML && shouldMinify(template)
WantsHTML(template) == ~skipHTML /\ defaultShouldMinify(template)

\* WantsCSS without the test of skipCSS
WantsCSSUnskipped(template) ==
    HasMinifyCSS(options) /\ defaultShouldMinifyCSS(template)

\* const minifyCSS = !skipCSS && strategy.minifyCSS && shouldMinifyCSS(template)
WantsCSS(template) ==
    ~skipCSS /\ HasMinifyCSS(options) /\ defaultShouldMinifyCSS(template)

\* what strategy.getPlaceholder(template.parts, template.tag) may return
PlaceholderChoices(template) ==
    IF options.strategy = "emptyString"
    THEN {StringPlaceholder(<<>>)}
    ELSE IF options.strategy = "emptyArray"
    THEN {ArrayPlaceholder(<<<<>>>>)}
    ELSE {getPlaceholder(template.parts, template.tag, bytes, nums) :
            bytes \in HexDraws,
            nums \in {n \in [1..(Len(template.parts) - 1) -> IntDraws] :
                        DrawsAccepted(template.parts, n)}}

\* minParts[index] ?? ""
PartOr(htmlParts, index) ==
    IF index <= Len(htmlParts) THEN htmlParts[index] ELSE <<>>

\* OverwriteLoop with offsets counted from the template's first part
RECURSIVE OverwriteLoopRelative(_, _, _, _, _)
OverwriteLoopRelative(buffer, t, tparts, htmlParts, index) ==
    IF index > Len(tparts)
    THEN buffer
    ELSE OverwriteLoopRelative(
            IF tparts[index].start < tparts[index].end
            THEN overwrite(buffer, t, tparts[index].start - tparts[1].start,
                           tparts[index].end - tparts[1].start,
                           PartOr(htmlParts, index))
            ELSE buffer,
            t, tparts, htmlParts, index + 1)

\* OverwriteLoop without the test part.start < part.end
RECURSIVE OverwriteLoopEveryPart(_, _, _, _, _)
OverwriteLoopEveryPart(buffer, t, tparts, htmlParts, index) ==
    IF index > Len(tparts)
    THEN buffer
    ELSE OverwriteLoopEveryPart(
            overwrite(buffer, t, tparts[index].start, tparts[index].end,
                      PartOr(htmlParts, index)),
            t, tparts, htmlParts, index + 1)

\* for (const [index, part] of template.parts.entries())
RECURSIVE OverwriteLoop(_, _, _, _, _)
OverwriteLoop(buffer, t, tparts, htmlParts, index) ==
    IF index > Len(tparts)
    THEN buffer
    ELSE OverwriteLoop(
            IF tparts[index].start < tparts[index].end
            THEN overwrite(buffer, t, tparts[index].start, tparts[index].end,
                           PartOr(htmlParts, index))
            ELSE buffer,
            t, tparts, htmlParts, index + 1)

\* the callback of template t from `const minParts = ...` to its end, with
\* min and the calls made before
SplitAndOverwrite(t, ph, min, before) ==
    LET split == splitHTMLByPlaceholder(min, ph)
        valid == ~options.validate
                    \/ ensureHTMLPartsValid(templates[t].parts, split.value)
    IN  /\ calls' = [calls EXCEPT ![t] = Append(before, "splitHTMLByPlaceholder")]
        /\ minParts' = [minParts EXCEPT ![t] = split]
        /\ IF split.threw \/ ~valid
           THEN /\ pc' = [pc EXCEPT ![t] = "failed"]
                /\ ms' = ms
           ELSE /\ pc' = [pc EXCEPT ![t] = "done"]
                /\ ms' = OverwriteLoop(ms, t, templates[t].parts, split.value, 1)

\* templates.map calls the callback of template t, which runs to its first
\* await, to its return or to the error it throws
Start(t) ==
    /\ mainPc = "map"
    /\ pc[t] = "init"
    /\ \A u \in 1..(t - 1) : pc[u] # "init"
    /\ IF ~(WantsHTML(templates[t]) \/ WantsCSS(templates[t]))
       THEN /\ pc' = [pc EXCEPT ![t] = "done"]
            /\ UNCHANGED <<placeholder, combined, minParts, calls, ms>>
       ELSE \E ph \in PlaceholderChoices(templates[t]) :
              /\ placeholder' = [placeholder EXCEPT ![t] = ph]
              /\ IF options.validate /\ ~ensurePlaceholderValid(ph)
                 THEN /\ pc' = [pc EXCEPT ![t] = "failed"]
                      /\ calls' = [calls EXCEPT ![t] = <<"getPlaceholder">>]
                      /\ UNCHANGED <<combined, minParts, ms>>
                 ELSE LET c == combineHTMLStrings(templates[t].parts, ph)
                          made == <<"getPlaceholder", "combineHTMLStrings">>
                      IN  /\ combined' = [combined EXCEPT ![t] = c]
                          /\ IF WantsCSS(templates[t]) /\ options.minifyCSS = "false"
                             THEN SplitAndOverwrite(t, ph, c, made)
                             ELSE /\ pc' = [pc EXCEPT ![t] = "await"]
                                  /\ calls' = [calls EXCEPT ![t] =
                                        IF WantsCSS(templates[t])
                                        THEN made \o <<"minifyCSS", "CleanCSS">>
                                        ELSE IF CommentMatch(c)
                                        THEN Append(made, "minifyHTML")
                                        ELSE made \o <<"minifyHTML", "minify">>]
                                  /\ UNCHANGED <<minParts, ms>>
    /\ UNCHANGED <<source, templates, options, skipCSS, skipHTML, mainPc, result>>
    /\ UNCHANGED strategyVars

\* await Promise.all(promises): every callback has been called
AwaitAll ==
    /\ mainPc = "map"
    /\ \A t \in 1..Len(templates) : pc[t] # "init"
    /\ mainPc' = "await"
    /\ UNCHANGED <<source, templates, options, skipCSS, skipHTML, ms, pc, result,
                   placeholder, combined, minParts, calls>>
    /\ UNCHANGED strategyVars

\* the minifier awaited by the callback of template t settles, and the
\* callback runs to its end
Resume(t) ==
    /\ mainPc # "map"
    /\ pc[t] = "await"
    /\ IF WantsCSS(templates[t])
       THEN \E o \in CleanCssOutcomes(EscapeKeyTokens(combined[t])) :
              LET min == minifyCSS(combined[t], o)
              IN  IF min.threw
                  THEN /\ pc' = [pc EXCEPT ![t] = "failed"]
                       /\ UNCHANGED <<minParts, calls, ms>>
                  ELSE SplitAndOverwrite(t, placeholder[t], min.value, calls[t])
       ELSE IF CommentMatch(combined[t])
       THEN SplitAndOverwrite(t, placeholder[t], combined[t], calls[t])
       ELSE \E m \in MinifyOutcomes(EscapeTagTokens(combined[t])) :
              SplitAndOverwrite(t, placeholder[t],
                                AfterMinify(EscapeTagTokens(combined[t]), m, TRUE),
                                calls[t])
    /\ UNCHANGED <<source, templates, options, skipCSS, skipHTML, mainPc, result,
                   placeholder, combined>>
    /\ UNCHANGED strategyVars

\* ResultOf without the comparison of the content with the source
ResultOfUncompared(src, buffer) == [kind |-> "Result", code |-> toString(buffer)]

\* const sourceMin = ms.toString(); if (source === sourceMin) return null;
\* return { map, code: sourceMin }
ResultOf(src, buffer) ==
    IF src = toString(buffer)
    THEN [kind |-> "null", code |-> <<>>]
    ELSE [kind |-> "Result", code |-> toString(buffer)]

\* Return without the rejection of Promise.all: the promises are settled
ReturnWhenSettled ==
    /\ mainPc = "await"
    /\ \A t \in 1..Len(templates) : pc[t] \in {"done", "failed"}
    /\ mainPc' = "returned"
    /\ result' = ResultOf(source, ms)
    /\ UNCHANGED <<source, templates, options, skipCSS, skipHTML, ms, pc,
                   placeholder, combined, minParts, calls>>
    /\ UNCHANGED strategyVars

\* every promise is fulfilled: minifyHTMLLiterals runs from ms.toString()
\* to its return
Return ==
    /\ mainPc = "await"
    /\ \A t \in 1..Len(templates) : pc[t] = "done"
    /\ mainPc' = "returned"
    /\ result' = ResultOf(source, ms)
    /\ UNCHANGED <<source, templates, options, skipCSS, skipHTML, ms, pc,
                   placeholder, combined, minParts, calls>>
    /\ UNCHANGED strategyVars

\* a promise is rejected: Promise.all rejects and minifyHTMLLiterals ends
\* with that error; the other callbacks go on
Reject ==
    /\ mainPc = "await"
    /\ \E t \in 1..Len(templates) : pc[t] = "failed"
    /\ mainPc' = "rejected"
    /\ result' = [kind |-> "error", code |-> <<>>]
    /\ UNCHANGED <<source, templates, options, skipCSS, skipHTML, ms, pc,
                   placeholder, combined, minParts, calls>>
    /\ UNCHANGED strategyVars

Next ==
    \/ \E t \in 1..Len(templates) : Start(t)
    \/ AwaitAll
    \/ \E t \in 1..Len(templates) : Resume(t)
    \/ Return
    \/ Reject

Spec == Init /\ [][Next]_vars

(***************************************************************************)
(* The strategy functions applied to one template: getPlaceholder (twice), *)
(* combineHTMLStrings, minifyHTML or minifyCSS, splitHTMLByPlaceholder.    *)
(***************************************************************************)

StrategyInit ==
    /\ \E f \in Families :
         /\ tag = f.tag
         /\ parts \in PartsOver(f.texts)
    /\ step = "start"
    /\ first = NoPlaceholder
    /\ second = NoPlaceholder
    /\ combinedStr = <<>>
    /\ called = FALSE
    /\ output = NoOutput
    /\ minified = Returned(<<>>)
    /\ segments = Returned(<<>>)
    /\ LiteralsIdle

\* strategy.getPlaceholder(parts, tag)
GetPlaceholder ==
    /\ step = "start"
    /\ \E bytes \in HexDraws, nums \in [1..(Len(parts) - 1) -> IntDraws] :
         /\ DrawsAccepted(parts, nums)
         /\ first' = getPlaceholder(parts, tag, bytes, nums)
    /\ step' = "placeholder"
    /\ UNCHANGED <<parts, tag, second, combinedStr, called, output, minified, segments>>
    /\ UNCHANGED literalsVars

\* a second strategy.getPlaceholder(parts, tag) with the same arguments
GetPlaceholderAgain ==
    /\ step = "placeholder"
    /\ \E bytes \in HexDraws, nums \in [1..(Len(parts) - 1) -> IntDraws] :
         /\ DrawsAccepted(parts, nums)
         /\ second' = getPlaceholder(parts, tag, bytes, nums)
    /\ step' = "again"
    /\ UNCHANGED <<parts, tag, first, combinedStr, called, output, minified, segments>>
    /\ UNCHANGED literalsVars

\* strategy.combineHTMLStrings(parts, placeholder)
Combine ==
    /\ step = "placeholder"
    /\ combinedStr' = combineHTMLStrings(parts, first)
    /\ step' = "combined"
    /\ UNCHANGED <<parts, tag, first, second, called, output, minified, segments>>
    /\ UNCHANGED literalsVars

\* strategy.minifyHTML(combined, defaultMinifyOptions)
MinifyHTML ==
    /\ step = "combined"
    /\ IF CommentMatch(combinedStr)
       THEN /\ called' = FALSE
            /\ minified' = Returned(combinedStr)
       ELSE /\ called' = TRUE
            /\ \E m \in MinifyOutcomes(EscapeTagTokens(combinedStr)) :
                 minified' = Returned(AfterMinify(EscapeTagTokens(combinedStr), m, TRUE))
    /\ step' = "html"
    /\ UNCHANGED <<parts, tag, first, second, combinedStr, output, segments>>
    /\ UNCHANGED literalsVars

\* strategy.minifyCSS(combined, cssOptions)
MinifyCSS ==
    /\ step = "combined"
    /\ \E o \in CleanCssOutcomes(EscapeKeyTokens(combinedStr)) :
         /\ output' = o
         /\ minified' = minifyCSS(combinedStr, o)
    /\ called' = TRUE
    /\ step' = "css"
    /\ UNCHANGED <<parts, tag, first, second, combinedStr, segments>>
    /\ UNCHANGED literalsVars

\* strategy.splitHTMLByPlaceholder(min, placeholder)
SplitByPlaceholder ==
    /\ step \in {"html", "css"}
    /\ ~minified.threw
    /\ segments' = splitHTMLByPlaceholder(minified.value, first)
    /\ step' = "split"
    /\ UNCHANGED <<parts, tag, first, second, combinedStr, called, output, minified>>
    /\ UNCHANGED literalsVars

\* strategy.splitHTMLByPlaceholder(combined, placeholder): the split of the
\* combined string as it is (a minifier that returns its input)
SplitCombined ==
    /\ step = "combined"
    /\ minified' = Returned(combinedStr)
    /\ segments' = splitHTMLByPlaceholder(combinedStr, first)
    /\ step' = "roundtrip"
    /\ UNCHANGED <<parts, tag, first, second, combinedStr, called, output>>
    /\ UNCHANGED literalsVars

StrategyNext ==
    \/ GetPlaceholder
    \/ GetPlaceholderAgain
    \/ Combine
    \/ MinifyHTML
    \/ MinifyCSS
    \/ SplitByPlaceholder
    \/ SplitCombined

SpecStrategy == StrategyInit /\ [][StrategyNext]_vars

(***************************************************************************)
(* Properties of the strategy functions (checked under SpecStrategy).      *)
(***************************************************************************)

\* s = s0 \o toks[1] \o s1 \o ... \o toks[n] \o sn for some s0..sn, the
\* first token starting at or after index from
RECURSIVE Embeds(_, _, _)
Embeds(s, toks, from) ==
    \/ Len(toks) = 0
    \/ \E i \in from..Len(s) :
         /\ StartsAt(s, toks[1], i)
         /\ Embeds(s, Tail(toks), i + Len(toks[1]))

\* the number of occurrences of the non-empty token tok in s
Occurrences(s, tok) == Cardinality({i \in 0..Len(s) : StartsAt(s, tok, i)})

\* the tokens combineHTMLStrings inserts for n parts, in order
Inserted(ph, n) ==
    IF ph.kind = "string" THEN [i \in 1..(n - 1) |-> ph.str] ELSE ph.arr

\* min contains every inserted token exactly once and in the original order
EveryTokenOnceInOrder(min, ph, n) ==
    /\ Embeds(min, Inserted(ph, n), 0)
    /\ ph.kind = "string" => Occurrences(min, ph.str) = n - 1

\* C1: when the minified string contains every inserted placeholder token
\* exactly once and in the original order, splitHTMLByPlaceholder returns
\* exactly parts.length segments.
C1_RoundTripCount ==
    (step = "split" /\ EveryTokenOnceInOrder(minified.value, first, Len(parts)))
        => (~segments.threw /\ Len(segments.value) = Len(parts))

\* C2: no token returned by getPlaceholder occurs in any part's text.
C2_CollisionFree ==
    step # "start"
        => \A tok \in Tokens(first) : \A i \in 1..Len(parts) :
               ~Includes(parts[i].text, tok)

\* C3: two invocations of getPlaceholder with the same parts and the same
\* tag return equal placeholders.
C3_Deterministic == step = "again" => second = first

\* the token at index j of html lies inside a markup comment <!-- ... -->
InsideComment(html, tok, j) ==
    /\ StartsAt(html, tok, j)
    /\ \E i \in 0..(j - 4) :
         /\ StartsAt(html, CommentOpen, i)
         /\ ~\E k \in (i + 4)..(j - 3) : StartsAt(html, CommentClose, k)
    /\ \E k \in (j + Len(tok))..Len(html) : StartsAt(html, CommentClose, k)

SlotInsideComment(html, ph) ==
    /\ ph.kind = "string"
    /\ \E j \in 0..Len(html) : InsideComment(html, ph.str, j)

\* C6: when the placeholder token of a combined markup string lies inside a
\* markup comment, minifyHTML returns its input unchanged and does not call
\* the external minifier.
C6_CommentSlotSkipped ==
    (step = "html" /\ SlotInsideComment(combinedStr, first))
        => (~called /\ minified = Returned(combinedStr))

\* C7: with warnings and no errors minifyCSS returns its input with the
\* line breaks removed and does not throw; with errors it throws.
C7_SoftFailure ==
    step = "css"
        => /\ (output.warnings /\ ~output.errors)
                => minified = Returned(RemoveChars(combinedStr, {"\n", "\r"}))
           /\ output.errors => minified.threw

(***************************************************************************)
(* Properties of minifyHTMLLiterals (checked under Spec).                  *)
(***************************************************************************)

Indices == 1..Len(templates)

\* the overwrites template t has applied to the edit buffer
EditsBy(t) == SelectSeq(ms.edits, LAMBDA e : e.by = t)

\* template t qualifies for minification
Qualifies(t) == WantsHTML(templates[t]) \/ WantsCSS(templates[t])

\* C4: minifyHTMLLiterals returns null when no template qualifies or the
\* final content of the edit buffer equals the source, and a Result record,
\* holding that content, only when the content differs from the source.
C4_NoOpSignal ==
    mainPc = "returned"
        => /\ (\A t \in Indices : ~Qualifies(t)) => result.kind = "null"
           /\ toString(ms) = source => result.kind = "null"
           /\ toString(ms) # source
                => (result.kind = "Result" /\ result.code = toString(ms))

\* C4 happens: templates were overwritten, the content is the source still,
\* and null is returned.
C4_Witness ==
    /\ mainPc = "returned"
    /\ result.kind = "null"
    /\ Len(ms.edits) > 0

\* the template would be minified as a stylesheet, as markup, were no
\* escape helper in the source
StylesheetTemplate(t) ==
    HasMinifyCSS(options) /\ defaultShouldMinifyCSS(templates[t])

MarkupTemplate(t) == defaultShouldMinify(templates[t]) /\ ~StylesheetTemplate(t)

Untouched(t) == Len(EditsBy(t)) = 0 /\ pc[t] # "failed"

Called(t, function) == \E n \in 1..Len(calls[t]) : calls[t][n] = function

\* C5 as stated: with unsafeHTML in the source no markup template is
\* modified, with unsafeCSS (and a strategy that has minifyCSS) no stylesheet
\* template is modified.
C5_AsStated ==
    /\ Includes(source, UnsafeHTML)
          => \A t \in Indices : MarkupTemplate(t) => Len(EditsBy(t)) = 0
    /\ (Includes(source, UnsafeCSS) /\ HasMinifyCSS(options))
          => \A t \in Indices : StylesheetTemplate(t) => Len(EditsBy(t)) = 0

\* C5 amended: with unsafeHTML in the source minifyHTML is never called and
\* the templates that qualify as markup only are not modified; with
\* unsafeCSS (and a strategy that has minifyCSS) minifyCSS is never called
\* and the templates that qualify as stylesheet only are not modified; none
\* of them fails, and a finished template that qualifies for the remaining
\* kind has been processed.
C5_EscapeHatch ==
    /\ Includes(source, UnsafeHTML)
          => \A t \in Indices :
                /\ ~Called(t, "minifyHTML")
                /\ (defaultShouldMinify(templates[t])
                        /\ ~defaultShouldMinifyCSS(templates[t]))
                      => (Untouched(t) /\ calls[t] = <<>>)
                /\ (StylesheetTemplate(t) /\ ~Includes(source, UnsafeCSS)
                        /\ pc[t] # "init")
                      => Called(t, "getPlaceholder")
    /\ (Includes(source, UnsafeCSS) /\ HasMinifyCSS(options))
          => \A t \in Indices :
                /\ ~Called(t, "minifyCSS")
                /\ (defaultShouldMinifyCSS(templates[t])
                        /\ ~defaultShouldMinify(templates[t]))
                      => (Untouched(t) /\ calls[t] = <<>>)
                /\ (defaultShouldMinify(templates[t])
                        /\ ~Includes(source, UnsafeHTML) /\ pc[t] # "init")
                      => Called(t, "getPlaceholder")

\* C5 happens: unsafeCSS is in the source, a stylesheet-only template has
\* finished untouched, and a markup template beside it has been overwritten.
C5_Witness ==
    /\ Includes(source, UnsafeCSS)
    /\ HasMinifyCSS(options)
    /\ \E t, u \in Indices :
         /\ defaultShouldMinifyCSS(templates[t])
         /\ ~defaultShouldMinify(templates[t])
         /\ pc[t] = "done"
         /\ Len(EditsBy(t)) = 0
         /\ MarkupTemplate(u)
         /\ Len(EditsBy(u)) > 0

\* C8: with validation enabled, a template has overwritten the edit buffer
\* only if its split had as many segments as it has parts; a template whose
\* counts differ has failed without an overwrite.
C8_CountGatesWrites ==
    options.validate
        => \A t \in Indices :
             /\ Len(EditsBy(t)) > 0
                  => (~minParts[t].threw
                        /\ Len(minParts[t].value) = Len(templates[t].parts))
             /\ (Called(t, "splitHTMLByPlaceholder") /\ ~minParts[t].threw
                    /\ Len(minParts[t].value) # Len(templates[t].parts))
                  => (pc[t] = "failed" /\ Len(EditsBy(t)) = 0)

\* C8 happens: with validation enabled a split returned a wrong number of
\* segments.
C8_Witness ==
    /\ options.validate
    /\ \E t \in Indices :
         /\ Called(t, "splitHTMLByPlaceholder")
         /\ ~minParts[t].threw
         /\ Len(minParts[t].value) # Len(templates[t].parts)

\* the placeholder is the empty string or an array that holds one
EmptyPlaceholder(ph) ==
    \/ ph.kind = "string" /\ ph.str = <<>>
    \/ ph.kind = "array" /\ \E i \in 1..Len(ph.arr) : ph.arr[i] = <<>>

\* C9: with validation enabled an empty placeholder is rejected before
\* combineHTMLStrings or a minifier is called for the template; with
\* validate set to false the check is skipped.
C9_PlaceholderValidatedFirst ==
    \A t \in Indices :
        EmptyPlaceholder(placeholder[t])
            => IF options.validate
               THEN pc[t] = "failed" /\ calls[t] = <<"getPlaceholder">>
               ELSE Called(t, "combineHTMLStrings")

\* C9 happens: with validation enabled a strategy returned an array that
\* holds an empty string.
C9_Witness ==
    /\ options.validate
    /\ \E t \in Indices :
         /\ placeholder[t].kind = "array"
         /\ EmptyPlaceholder(placeholder[t])
         /\ pc[t] = "failed"

\* the overwrites in the order sequential processing applies them
RECURSIVE Sequential(_)
Sequential(t) ==
    IF t > Len(templates) THEN <<>> ELSE EditsBy(t) \o Sequential(t + 1)

Disjoint(e, f) == e.end <= f.start \/ f.end <= e.start

\* C10: under every order in which the minifier calls complete, no source
\* range is overwritten by two templates, and the final content is that of
\* processing the templates one after the other.
C10_InterleavingIndependent ==
    /\ \A m, n \in 1..Len(ms.edits) :
          ms.edits[m].by # ms.edits[n].by => Disjoint(ms.edits[m], ms.edits[n])
    /\ mainPc = "returned"
          => /\ toString(ms) = Render(source, Sequential(1), 0)
             /\ result = ResultOf(source, [original |-> source, edits |-> Sequential(1)])

\* C10 happens: the second template has overwritten its parts before the
\* first, and minifyHTMLLiterals has returned.
C10_Witness ==
    /\ mainPc = "returned"
    /\ Len(ms.edits) > 1
    /\ ms.edits[1].by = 2
    /\ ms.edits[Len(ms.edits)].by = 1

\* the callback of template t has thrown
Failed(t) == pc[t] = "failed"

\* C11: when the processing of a template has failed, minifyHTMLLiterals
\* does not return a Result record or null, whatever the other templates
\* do; when it ends then, it ends with the error.
C11_FailureAborts ==
    /\ (\E t \in Indices : Failed(t))
          => (mainPc # "returned" /\ result.kind \notin {"Result", "null"})
    /\ mainPc = "rejected"
          => (result.kind = "error" /\ \E t \in Indices : Failed(t))

\* C11 happens: a template has failed, another has overwritten its parts,
\* and the invocation has ended with the error.
C11_Witness ==
    /\ mainPc = "rejected"
    /\ \E t, u \in Indices :
         /\ Failed(t)
         /\ pc[u] = "done"
         /\ Len(EditsBy(u)) > 0

(***************************************************************************)
(* Properties of the two splitters (checked under SpecStrategy).           *)
(***************************************************************************)

\* the token without its final character
Shortened(tok) == Slice(tok, 0, Len(tok) - 1)

\* the segments with the token or the shortened token, as mix tells, between
\* them
RECURSIVE Weave(_, _, _, _)
Weave(segs, tok, mix, i) ==
    IF i > Len(segs) THEN <<>>
    ELSE segs[i]
            \o (IF i = Len(segs) THEN <<>>
                ELSE IF mix[i] THEN tok ELSE Shortened(tok))
            \o Weave(segs, tok, mix, i + 1)

RECURSIVE Interleave(_, _, _)
Interleave(segs, toks, i) ==
    IF i > Len(segs) THEN <<>>
    ELSE segs[i] \o (IF i <= Len(toks) THEN toks[i] ELSE <<>>)
                 \o Interleave(segs, toks, i + 1)

\* the offset at which the scan for token k starts: the end of the match of
\* token k - 1
RECURSIVE Cursor(_, _, _)
Cursor(segs, toks, k) ==
    IF k = 1 THEN 0
    ELSE Cursor(segs, toks, k - 1) + Len(segs[k - 1]) + Len(toks[k - 1])

\* C13: for an array of n tokens splitHTMLByPlaceholder returns n + 1
\* segments that, with the tokens between them, give the input back, each
\* token matched at its first occurrence at or after the end of the match
\* before it; or it throws, and it throws exactly when the tokens do not
\* occur in the input in their order.
C13_StrictOrderedScan ==
    (step = "split" /\ first.kind = "array")
        => IF segments.threw
           THEN ~Embeds(minified.value, first.arr, 0)
           ELSE /\ Embeds(minified.value, first.arr, 0)
                /\ Len(segments.value) = Len(first.arr) + 1
                /\ Interleave(segments.value, first.arr, 1) = minified.value
                /\ \A k \in 1..Len(first.arr) :
                      IndexOf(minified.value, first.arr[k],
                              Cursor(segments.value, first.arr, k))
                        = Cursor(segments.value, first.arr, k) + Len(segments.value[k])

\* C13 happens: the same token stands in two slots, and the split has
\* matched one after the other.
C13_Witness ==
    /\ step = "split"
    /\ first.kind = "array"
    /\ Len(first.arr) = 2
    /\ first.arr[1] = first.arr[2]
    /\ ~segments.threw
    /\ Len(segments.value) = 3

(***************************************************************************)
(* Properties of getPlaceholder in stylesheet mode (checked under          *)
(* SpecStrategy).                                                          *)
(***************************************************************************)

Boundaries == 1..(Len(parts) - 1)

\* the boundary i is a selector position the loop reaches
SelectorAt(i) == Reached(parts, i) /\ Classify(parts, i) = "selector"

\* the loop returns at a rule position
RuleReached == \E i \in Boundaries : Reached(parts, i) /\ Classify(parts, i) = "rule"

\* the values of `random`
Randoms == {<<"t", "m", "p", "_">> \o bytes : bytes \in HexDraws}

\* C14 as stated: when the loop reaches a selector position, getPlaceholder
\* returns one token for the whole template, no token per boundary.
C14_AsStated ==
    (step # "start" /\ IsCss(tag) /\ \E i \in Boundaries : SelectorAt(i))
        => (first.kind = "string" \/ Len(first.arr) = 1)

\* C14 amended: a selector position adds the token "#" + random for its
\* boundary and the loop goes on: when no rule position is reached the
\* placeholder is an array of one token per boundary, that of each selector
\* position being "#" + random; only a rule position, also one after a
\* selector position, makes getPlaceholder return the single token
\* "@" + random + "();".
C14_SelectorToken ==
    (step # "start" /\ IsCss(tag))
        => IF RuleReached
           THEN /\ first.kind = "string"
                /\ \E random \in Randoms : first.str = <<"@">> \o random \o Suffix
           ELSE /\ first.kind = "array"
                /\ Len(first.arr) = Len(parts) - 1
                /\ \E random \in Randoms :
                      \A i \in Boundaries :
                          SelectorAt(i) => first.arr[i] = <<"#">> \o random

\* C14 happens: a selector position is followed by another boundary, and
\* getPlaceholder has returned a token for each.
C14_Witness ==
    /\ step # "start"
    /\ IsCss(tag)
    /\ Len(parts) = 3
    /\ SelectorAt(1)
    /\ first.kind = "array"
    /\ Len(first.arr) = 2

(***************************************************************************)
(* The overwrites of a template (checked under Spec).                      *)
(***************************************************************************)

\* the callback of template t has run to its end and t qualifies
Processed(t) == pc[t] = "done" /\ Qualifies(t)

\* the overwrites of the parts i, i + 1, ... of template t: one for each
\* part with start < end, with the part's offsets and segment i of the
\* split (the empty string when the split has no segment i)
RECURSIVE Footprint(_, _)
Footprint(t, i) ==
    IF i > Len(templates[t].parts) THEN <<>>
    ELSE (IF templates[t].parts[i].start < templates[t].parts[i].end
          THEN <<[by |-> t,
                  start |-> templates[t].parts[i].start,
                  end |-> templates[t].parts[i].end,
                  content |-> PartOr(minParts[t].value, i)]>>
          ELSE <<>>)
         \o Footprint(t, i + 1)

\* the footprints of the processed templates t, t + 1, ... in source order
RECURSIVE Footprints(_)
Footprints(t) ==
    IF t > Len(templates) THEN <<>>
    ELSE (IF Processed(t) THEN Footprint(t, 1) ELSE <<>>) \o Footprints(t + 1)

\* src from offset pos on, with the ranges of edits k, k + 1, ... replaced by
\* their contents and everything between them kept
RECURSIVE Patch(_, _, _, _)
Patch(src, edits, k, pos) ==
    IF k > Len(edits) THEN SliceFrom(src, pos)
    ELSE Slice(src, pos, edits[k].start) \o edits[k].content
            \o Patch(src, edits, k + 1, edits[k].end)

\* the split of template t has a segment for each of its non-empty parts
SegmentForEachPart(t) ==
    \A i \in 1..Len(templates[t].parts) :
        templates[t].parts[i].start < templates[t].parts[i].end
            => i <= Len(minParts[t].value)

\* C15 as stated: a processed template has issued one overwrite for each
\* non-empty part, with the part's offsets and segment i of the split.
C15_AsStated ==
    \A t \in Indices :
        Processed(t) => (SegmentForEachPart(t) /\ EditsBy(t) = Footprint(t, 1))

\* C15 amended: a processed template has issued exactly one overwrite for
\* each part with start < end, with the part's offsets and segment i of the
\* split, or the empty string when the split has returned fewer than i
\* segments, which happens with validation disabled only; it has issued none
\* for a part with start = end; every other template has issued none; and
\* the returned content is the source with these ranges replaced and
\* everything else kept.
C15_OverwriteFootprint ==
    /\ \A t \in Indices :
          /\ Processed(t) => EditsBy(t) = Footprint(t, 1)
          /\ ~Processed(t) => EditsBy(t) = <<>>
          /\ (Processed(t) /\ options.validate) => SegmentForEachPart(t)
    /\ mainPc = "returned"
          => /\ toString(ms) = Patch(source, Footprints(1), 1, 0)
             /\ result.kind = "Result" => result.code = Patch(source, Footprints(1), 1, 0)

\* C15 happens: a template with a zero-length part and a template that does
\* not qualify are in the source, the first has overwritten its non-empty
\* part, and the changed content is returned.
C15_Witness ==
    /\ mainPc = "returned"
    /\ result.kind = "Result"
    /\ \E t, u \in Indices :
         /\ Processed(t)
         /\ \E i \in 1..Len(templates[t].parts) :
               templates[t].parts[i].start = templates[t].parts[i].end
         /\ Len(EditsBy(t)) = 1
         /\ ~Qualifies(u)

(***************************************************************************)
(* The round trip of combineHTMLStrings and splitHTMLByPlaceholder         *)
(* (checked under SpecStrategy).                                           *)
(***************************************************************************)

\* C16: for every placeholder getPlaceholder returns for the parts, the
\* split of the combined string returns exactly the texts of the parts.
C16_ContentRoundTrip ==
    step = "roundtrip"
        => (~segments.threw /\ segments.value = Texts(parts))

====
